---- MODULE Spec2Model ----
(***************************************************************************)
(* Retrieval engine of the PDF question-answering assistant:               *)
(*   - LightweightTextSplitter.split_text  (lightweight_text_splitter.py)  *)
(*   - LightweightVectorStore              (lightweight_vectorstore.py)    *)
(* Strings are sequences of one-character strings.  An index text is a     *)
(* sequence of raw words (the text split at blanks).                       *)
(***************************************************************************)
EXTENDS Integers, Sequences, FiniteSets, TLC

VARIABLES
    \* ---- LightweightTextSplitter: the fields and the locals of split_text
    sp_pc,          \* "ready" | "loop" | "done": position of the split_text call
    chunk_size,     \* self.chunk_size
    chunk_overlap,  \* self.chunk_overlap
    text,           \* the argument of split_text
    splits,         \* text.split(self.separator)
    pos,            \* index (1-based) of the next element of splits
    current_chunk,  \* the buffer
    chunks,         \* the chunks appended so far (the return value at "done")
    emits,          \* history, one record per element of chunks: the untrimmed
                    \* buffer it was made from, how many of its leading characters
                    \* are the injected overlap and separator, why it was emitted
    cur_inj,        \* history: injected leading characters of current_chunk
    \* ---- LightweightVectorStore: the instance the caller holds, and its directory
    store,          \* [texts, vectorizer, vectors, fitted]: self.texts, ...
    disk,           \* the four artifacts of the index directory, each absent or held
    last,           \* the last call on the index: its arguments and its outcome
    \* ---- callers that share the instance
    qs,             \* per thread, the similarity_search call it is in: the line it
                    \* is at, its arguments and its locals
    \* ---- ingestion: create_embeddings / create_static_embeddings
    ing,            \* the ingestion call: the line it is at, text_chunks, whether
                    \* the cloud store is in use, what it returned
    fs,             \* the chunk file, the metadata file and the cloud mirror (the
                    \* index directory is disk)
    \* ---- the application around the index
    ld,             \* the last load_static_embeddings call: what it returned
    chat,           \* LightweightConversationChain: the messages of its memory
                    \* and the outcome of its last call
    adm             \* BackendAdmin: the pdfs and backups directories and the
                    \* outcome of the last delete_pdf

indexVars == <<store, disk, last>>

ingVars == <<ing, fs>>

appVars == <<ld, chat, adm>>

auxVars == <<qs, ing, fs, ld, chat, adm>>

splitVars == <<sp_pc, chunk_size, chunk_overlap, text, splits, pos,
               current_chunk, chunks, emits, cur_inj>>

-----------------------------------------------------------------------------
(* Bounds of the splitter model *)
MaxTextLen == 6
MaxChunkSize == 4
MaxOverlap == 3

Alphabet == {"a", "b", " ", "\n"}

\* self.separator: "\n" at every call site and by default
separator == <<"\n">>

Texts == UNION {[1..n -> Alphabet] : n \in 0..MaxTextLen}

\* str.isspace for the characters of the alphabet
IsSpace(c) == c \in {" ", "\n"}

RECURSIVE LStrip(_)
LStrip(s) == IF s = <<>> THEN s
             ELSE IF IsSpace(Head(s)) THEN LStrip(Tail(s)) ELSE s

RECURSIVE RStrip(_)
RStrip(s) == IF s = <<>> THEN s
             ELSE IF IsSpace(s[Len(s)]) THEN RStrip(SubSeq(s, 1, Len(s) - 1)) ELSE s

\* str.strip()
Strip(s) == RStrip(LStrip(s))

\* str.split(sep) for a one-character sep: the units between separators,
\* empty units kept.  acc is the unit being read.
RECURSIVE SplitFrom(_, _)
SplitFrom(s, acc) ==
    IF s = <<>> THEN <<acc>>
    ELSE IF <<Head(s)>> = separator THEN <<acc>> \o SplitFrom(Tail(s), <<>>)
    ELSE SplitFrom(Tail(s), Append(acc, Head(s)))

Split(s) == SplitFrom(s, <<>>)

\* s[-n:] for 0 < n
LastN(s, n) == SubSeq(s, Len(s) - n + 1, Len(s))

\* Variant of OverlapText: the head of the buffer instead of its tail.
OverlapTextHead(cur, ov) == IF Len(cur) > ov THEN SubSeq(cur, 1, ov) ELSE cur

\* overlap_text (line 51)
OverlapText(cur, ov) == IF Len(cur) > ov THEN LastN(cur, ov) ELSE cur

\* Variant of SeedBuffer: the unit that triggered the overflow is not carried over.
SeedBufferNoUnit(cur, split, ov) ==
    IF ov > 0 THEN OverlapText(cur, ov) \o separator ELSE <<>>

\* Variant of SeedBuffer: with no overlap configured the last character of the
\* closed buffer is still carried over.
SeedBufferCarriesLast(cur, split, ov) ==
    IF ov > 0 THEN OverlapText(cur, ov) \o separator \o split
    ELSE OverlapText(cur, 1) \o split

\* The buffer started after an overflow (lines 49-54)
SeedBuffer(cur, split, ov) ==
    IF ov > 0 THEN OverlapText(cur, ov) \o separator \o split ELSE split

\* history: how many leading characters of SeedBuffer are injected
SeedInjected(cur, ov) ==
    IF ov > 0 THEN Len(OverlapText(cur, ov)) + Len(separator) ELSE 0

\* range(0, len(split), n) and split[i:i+n]: the consecutive slices
RECURSIVE Slices(_, _)
Slices(s, n) ==
    IF s = <<>> THEN <<>>
    ELSE IF Len(s) <= n THEN <<s>>
    ELSE <<SubSeq(s, 1, n)>> \o Slices(SubSeq(s, n + 1, Len(s)), n)

\* Variant of KeptSlices: every slice is kept.
KeptSlicesAll(s, n) == Slices(s, n)

\* the slices kept by `if chunk.strip()` (line 61)
KeptSlices(s, n) == SelectSeq(Slices(s, n), LAMBDA c : Strip(c) # <<>>)

StripAll(ss) == [i \in 1..Len(ss) |-> Strip(ss[i])]

Emit(raw, inj, kind, unit) == [raw |-> raw, inj |-> inj, kind |-> kind, unit |-> unit]

\* Variant of Exhausted: the loop waits for one unit more than there are.
ExhaustedLate(p, ss) == p > Len(ss) + 1

\* `for split in splits` (line 43) has no unit left when p units were taken
Exhausted(p, ss) == p > Len(ss)

SplitInit ==
    /\ sp_pc = "ready"
    /\ chunk_size \in 1..MaxChunkSize
    /\ chunk_overlap \in 0..MaxOverlap
    /\ text = <<>>
    /\ splits = <<>>
    /\ pos = 1
    /\ current_chunk = <<>>
    /\ chunks = <<>>
    /\ emits = <<>>
    /\ cur_inj = 0

\* split_text, lines 35-41: the early return and the set-up of the loop
SplitTextCallOf(T) ==
    /\ sp_pc = "ready"
    /\ \E t \in T :
        /\ text' = t
        /\ IF t = <<>>
           THEN /\ sp_pc' = "done"
                /\ splits' = <<>>
           ELSE /\ sp_pc' = "loop"
                /\ splits' = Split(t)
    /\ pos' = 1
    /\ current_chunk' = <<>>
    /\ chunks' = <<>>
    /\ emits' = <<>>
    /\ cur_inj' = 0
    /\ UNCHANGED <<chunk_size, chunk_overlap>>
    /\ UNCHANGED indexVars
    /\ UNCHANGED auxVars

SplitTextCall == SplitTextCallOf(Texts)

\* split_text, lines 43-66: one iteration of `for split in splits`
SplitLoop ==
    /\ sp_pc = "loop"
    /\ pos <= Len(splits)
    /\ ~Exhausted(pos, splits)
    /\ LET split == splits[pos] IN
       IF Len(current_chunk) + Len(split) + Len(separator) > chunk_size
       THEN IF current_chunk # <<>>
            THEN /\ chunks' = Append(chunks, Strip(current_chunk))
                 /\ emits' = Append(emits, Emit(current_chunk, cur_inj, "overflow", pos))
                 /\ current_chunk' = SeedBuffer(current_chunk, split, chunk_overlap)
                 /\ cur_inj' = SeedInjected(current_chunk, chunk_overlap)
            ELSE IF Len(split) > chunk_size
                 THEN LET kept == KeptSlices(split, chunk_size) IN
                      /\ chunks' = chunks \o StripAll(kept)
                      /\ emits' = emits \o
                            [i \in 1..Len(kept) |-> Emit(kept[i], 0, "slice", pos)]
                      /\ UNCHANGED <<current_chunk, cur_inj>>
                 ELSE /\ current_chunk' = split
                      /\ cur_inj' = 0
                      /\ UNCHANGED <<chunks, emits>>
       ELSE /\ current_chunk' =
                current_chunk \o (IF current_chunk # <<>> THEN separator ELSE <<>>) \o split
            /\ UNCHANGED <<chunks, emits, cur_inj>>
    /\ pos' = pos + 1
    /\ UNCHANGED <<sp_pc, chunk_size, chunk_overlap, text, splits>>
    /\ UNCHANGED indexVars
    /\ UNCHANGED auxVars

\* split_text, lines 68-72: the last chunk and the return
SplitFlush ==
    /\ sp_pc = "loop"
    /\ Exhausted(pos, splits)
    /\ IF Strip(current_chunk) # <<>>
       THEN /\ chunks' = Append(chunks, Strip(current_chunk))
            /\ emits' = Append(emits, Emit(current_chunk, cur_inj, "final", pos))
       ELSE UNCHANGED <<chunks, emits>>
    /\ sp_pc' = "done"
    /\ UNCHANGED <<chunk_size, chunk_overlap, text, splits, pos, current_chunk, cur_inj>>
    /\ UNCHANGED indexVars
    /\ UNCHANGED auxVars

SplitNext == SplitTextCall \/ SplitLoop \/ SplitFlush


-----------------------------------------------------------------------------
(* LightweightVectorStore *)

(* Bounds of the index model *)
MaxTexts == 4
MaxNew == 2
MaxK == 2

\* TfidfVectorizer(min_df=2, max_df=0.95), max_df in hundredths
MinDf == 2
MaxDfPct == 95

\* fixed-point unit of the idf weights
IdfScale == 40

\* round(IdfScale * ln(i)) for i = 1..13
LnScaled == <<0, 28, 44, 55, 64, 72, 78, 83, 88, 92, 96, 99, 103>>

\* the texts the model draws chunks from, each a sequence of raw words
CatLaw == <<"cat", "law">>
DogLaw == <<"dog", "law">>
SpaceLaw == <<"space", "law">>
TheCat == <<"The", "Cat">>
Pool == {CatLaw, DogLaw, SpaceLaw, TheCat}
Queries == Pool \cup {<<"cat">>}
Ks == 1..MaxK
\* score_threshold in hundredths
Thresholds == {0, 50, 100}
\* the texts and the queries of the model of an index and its directory
LifePool == {CatLaw, DogLaw, SpaceLaw}
LifeQueries == LifePool \cup {<<"cat">>}
\* every corpus the model can hold
Corpora == UNION {[1..m -> Pool] : m \in 0..MaxTexts}

SeqsUpTo(S, n) == UNION {[1..m -> S] : m \in 0..n}

None == <<>>
Some(x) == <<x>>
Val(o) == o[1]

\* ---- the analyzer of TfidfVectorizer(stop_words='english', ngram_range=(1, 2))
\* str.lower on the model's words
Lower(w) == CASE w = "Cat" -> "cat" [] w = "The" -> "the" [] OTHER -> w

\* the words of the model that are in sklearn's English stop-word list
StopWords == {"the"}

\* lowercase, tokenize (every word of the model has two or more word
\* characters, which token_pattern keeps), drop the stop words
Tokens(t) == SelectSeq([i \in 1..Len(t) |-> Lower(t[i])], LAMBDA w : w \notin StopWords)

\* unigrams and bigrams of the tokens that are left
Ngrams(t) ==
    LET tk == Tokens(t) IN
    [i \in 1..Len(tk) |-> <<tk[i]>>] \o [i \in 1..(Len(tk) - 1) |-> <<tk[i], tk[i + 1]>>]

\* the analyzer's output for each text of the model, computed once
TermsTable == [t \in Queries |-> Ngrams(t)]

TermsOf(t) == TermsTable[t]

\* term frequency
Tf(t, term) == Cardinality({i \in 1..Len(TermsOf(t)) : TermsOf(t)[i] = term})

AllTerms(corpus) ==
    UNION {{TermsOf(corpus[i])[j] : j \in 1..Len(TermsOf(corpus[i]))} : i \in 1..Len(corpus)}

\* document frequency
Df(corpus, term) == Cardinality({i \in 1..Len(corpus) : Tf(corpus[i], term) > 0})

\* _limit_features: the terms within the document-frequency bounds
KeptTerms(corpus) ==
    {t \in AllTerms(corpus) :
        /\ Df(corpus, t) >= MinDf
        /\ 100 * Df(corpus, t) <= MaxDfPct * Len(corpus)}

\* fit_transform raises ValueError: an empty vocabulary, max_df below min_df for
\* this number of documents, or no term left after pruning
FitFails(corpus) ==
    \/ AllTerms(corpus) = {}
    \/ MaxDfPct * Len(corpus) < 100 * MinDf
    \/ KeptTerms(corpus) = {}

\* the order of the feature names: by word, a term before its extensions
WordRank(w) == CASE w = "cat" -> 1 [] w = "dog" -> 2 [] w = "law" -> 3
                 [] w = "space" -> 4 [] OTHER -> 5

TermLess(a, b) ==
    \/ WordRank(a[1]) < WordRank(b[1])
    \/ /\ a[1] = b[1]
       /\ \/ Len(a) < Len(b)
          \/ Len(a) = 2 /\ Len(b) = 2 /\ WordRank(a[2]) < WordRank(b[2])

RECURSIVE SortTerms(_)
SortTerms(S) ==
    IF S = {} THEN <<>>
    ELSE LET m == CHOOSE x \in S : \A y \in S \ {x} : TermLess(x, y)
         IN  <<m>> \o SortTerms(S \ {m})

\* smooth idf: ln((1 + n) / (1 + df)) + 1, in units of 1/IdfScale
Idf(n, df) == LnScaled[1 + n] - LnScaled[1 + df] + IdfScale

\* the state of a fitted vectorizer: the vocabulary, one column per term, and idf_
FittedVectorizer(corpus) ==
    LET voc == SortTerms(KeptTerms(corpus)) IN
    [vocabulary |-> voc,
     idf |-> [c \in 1..Len(voc) |-> Idf(Len(corpus), Df(corpus, voc[c]))]]

\* vectorizer.transform([t]): the tf-idf row of t (its l2 norm is taken in Cosine)
Transform(vz, t) == [c \in 1..Len(vz.vocabulary) |-> Tf(t, vz.vocabulary[c]) * vz.idf[c]]

RECURSIVE Dot(_, _)
Dot(a, b) == IF a = <<>> THEN 0 ELSE a[1] * b[1] + Dot(Tail(a), Tail(b))

RECURSIVE Gcd(_, _)
Gcd(a, b) == IF b = 0 THEN a ELSE Gcd(b, a % b)

\* the square of cosine_similarity of two rows, a fraction in lowest terms;
\* a zero row has similarity 0
Cosine(q, d) ==
    LET qd == Dot(q, d)
        nn == Dot(q, q) * Dot(d, d)
    IN  IF qd = 0 \/ nn = 0 THEN [num |-> 0, den |-> 1]
        ELSE LET g == Gcd(qd * qd, nn) IN [num |-> (qd * qd) \div g, den |-> nn \div g]

\* compare the fractions a/b and c/d (b, d > 0): -1, 0 or 1, without products
RECURSIVE FracCmp(_, _, _, _)
FracCmp(a, b, c, d) ==
    LET qa == a \div b
        qc == c \div d
        ra == a % b
        rc == c % d
    IN  IF qa # qc THEN (IF qa < qc THEN -1 ELSE 1)
        ELSE IF ra = 0 /\ rc = 0 THEN 0
        ELSE IF ra = 0 THEN -1
        ELSE IF rc = 0 THEN 1
        ELSE FracCmp(d, rc, b, ra)

ScoreLess(x, y) == FracCmp(x.num, x.den, y.num, y.den) < 0

\* score >= score_threshold (line 92), the threshold in hundredths
AtLeast(x, th) == FracCmp(x.num, x.den, th * th, 10000) >= 0

\* Variant of SortByScore: equal scores in the reverse of the order they were
\* appended, as a sort of the ascending order read backwards would give.
RECURSIVE SortByScoreReversedTies(_, _)
SortByScoreReversedTies(S, sc) ==
    IF S = {} THEN <<>>
    ELSE LET m == CHOOSE i \in S : \A j \in S \ {i} :
                      \/ ScoreLess(sc[j], sc[i])
                      \/ ~ScoreLess(sc[i], sc[j]) /\ i > j
         IN  <<m>> \o SortByScoreReversedTies(S \ {m}, sc)

\* results.sort(key=score, reverse=True): descending, equal scores in the order
\* they were appended (the sort is stable)
RECURSIVE SortByScore(_, _)
SortByScore(S, sc) ==
    IF S = {} THEN <<>>
    ELSE LET m == CHOOSE i \in S : \A j \in S \ {i} :
                      \/ ScoreLess(sc[j], sc[i])
                      \/ ~ScoreLess(sc[i], sc[j]) /\ i < j
         IN  <<m>> \o SortByScore(S \ {m}, sc)

EmptyStore == [texts |-> <<>>, vectorizer |-> None, vectors |-> None, fitted |-> FALSE]

\* Variant of AddTexts: the fitted flag is left as it was.
AddTextsKeepFlag(s, new) ==
    IF new = <<>> THEN s ELSE [s EXCEPT !.texts = @ \o new]

\* Variant of AddTexts: the flag is reset even when nothing is added.
AddTextsAlwaysResets(s, new) == [s EXCEPT !.texts = @ \o new, !.fitted = FALSE]

\* add_texts (lines 42-48)
AddTexts(s, new) ==
    IF new = <<>> THEN s ELSE [s EXCEPT !.texts = @ \o new, !.fitted = FALSE]

\* __init__ (lines 20-40): self.texts is the caller's list itself, so the
\* add_texts(texts) of line 40 extends that list by itself
Construct(l) ==
    LET s0 == [EmptyStore EXCEPT !.texts = l]
    IN  IF l # <<>> THEN AddTexts(s0, s0.texts) ELSE s0

\* self.vectorizer.fit_transform(self.texts) (line 57): whether it raises, and
\* if not the fitted vectorizer and the matrix, one row per text
FitTransform(corpus) ==
    IF FitFails(corpus) THEN [raises |-> TRUE, vectorizer |-> None, vectors |-> None]
    ELSE LET vz == FittedVectorizer(corpus) IN
         [raises |-> FALSE,
          vectorizer |-> Some(vz),
          vectors |-> Some([i \in 1..Len(corpus) |-> Transform(vz, corpus[i])])]

\* fit_transform of each corpus of the model, computed once
FitTable == [c \in Corpora \ {<<>>} |-> FitTransform(c)]

\* Variant of Fit: a vectorizer that is already fitted keeps its vocabulary and
\* its weights, and only the rows are computed again.
FitKeepVocabulary(s) ==
    IF s.texts = <<>> THEN [store |-> s, raised |-> FALSE]
    ELSE IF s.vectorizer # None
         THEN [store |-> [s EXCEPT !.vectors =
                              Some([i \in 1..Len(s.texts) |->
                                       Transform(Val(s.vectorizer), s.texts[i])]),
                                   !.fitted = TRUE],
               raised |-> FALSE]
         ELSE LET ft == FitTable[s.texts] IN
              IF ft.raises THEN [store |-> s, raised |-> TRUE]
              ELSE [store |-> [s EXCEPT !.vectorizer = ft.vectorizer,
                                        !.vectors = ft.vectors,
                                        !.fitted = TRUE],
                    raised |-> FALSE]

\* fit (lines 50-62): the new state and whether the call raised
Fit(s) ==
    IF s.texts = <<>> THEN [store |-> s, raised |-> FALSE]
    ELSE LET ft == FitTable[s.texts] IN
         IF ft.raises THEN [store |-> s, raised |-> TRUE]
         ELSE [store |-> [s EXCEPT !.vectorizer = ft.vectorizer,
                                   !.vectors = ft.vectors,
                                   !.fitted = TRUE],
               raised |-> FALSE]

\* Variant of NeedsFit: every query fits again.
NeedsFitAlways(s) == TRUE

\* line 76: `if not self._fitted`
NeedsFit(s) == ~s.fitted

\* lines 76-77: the fit a query makes on an unfitted store, outside the try
LazyFit(s) == IF NeedsFit(s) THEN Fit(s) ELSE [store |-> s, raised |-> FALSE]

\* lines 84-87: the similarity of the query to each row; an exception (an
\* unfitted vectorizer, rows whose width is not the vocabulary's) is caught
\* cosine_similarity(query_vector, self.vectors).flatten() (line 87): it raises
\* when the rows do not have the width of the query vector
CosineAll(qv, rows) ==
    IF \E i \in 1..Len(rows) : Len(rows[i]) # Len(qv)
    THEN [failed |-> TRUE, sc |-> <<>>]
    ELSE [failed |-> FALSE, sc |-> [i \in 1..Len(rows) |-> Cosine(qv, rows[i])]]

Similarities(s, q) ==
    IF s.vectorizer = None \/ s.vectors = None THEN [failed |-> TRUE, sc |-> <<>>]
    ELSE CosineAll(Transform(Val(s.vectorizer), q), Val(s.vectors))

\* Variant of Take: the whole sequence.
TakeAll(s, n) == s

\* results[:k] (line 97)
Take(s, n) == SubSeq(s, 1, IF n < Len(s) THEN n ELSE Len(s))

\* lines 90-96: the rows at or above the threshold, by descending score;
\* self.texts[i] past the end of the list raises, which is caught
Ranked(s, sim, th) ==
    IF sim.failed THEN <<>>
    ELSE LET keep == {i \in 1..Len(sim.sc) : AtLeast(sim.sc[i], th)} IN
         IF \E i \in keep : i > Len(s.texts) THEN <<>>
         ELSE LET order == SortByScore(keep, sim.sc) IN
              [n \in 1..Len(order) |->
                  [text |-> s.texts[order[n]], score |-> sim.sc[order[n]]]]

\* lines 90-97: the first k of them
TopK(s, sim, k, th) == Take(Ranked(s, sim, th), k)

\* similarity_search (lines 64-101) after the fit of lines 76-77, whose outcome
\* is f, with the ranking of lines 84-96 given as rk: the new state, whether
\* the call raised, and what it returned
SearchRanked(f, rk, k) ==
    IF f.raised THEN [store |-> f.store, raised |-> TRUE, result |-> <<>>]
    ELSE IF ~f.store.fitted \/ f.store.vectors = None
         THEN [store |-> f.store, raised |-> FALSE, result |-> <<>>]
         ELSE [store |-> f.store, raised |-> FALSE, result |-> Take(rk, k)]

\* similarity_search (lines 64-101) after the fit of lines 76-77
SearchAfter(f, q, k, th) ==
    SearchRanked(f, Ranked(f.store, Similarities(f.store, q), th), k)

\* similarity_search (lines 64-101)
SimilaritySearch(s, q, k, th) == SearchAfter(LazyFit(s), q, k, th)

NoDisk == [vectorizer |-> None, vectors |-> None, texts |-> None, metadata |-> None]

\* save_local (lines 103-133) when every write succeeds; an artifact holds the
\* pickled value
Artifacts(s) ==
    [vectorizer |-> Some(s.vectorizer),
     vectors |-> Some(s.vectors),
     texts |-> Some(s.texts),
     metadata |-> Some([num_texts |-> Len(s.texts), fitted |-> s.fitted])]

ArtifactOrder == <<"vectorizer", "vectors", "texts", "metadata">>

\* save_local stopped by an error at artifact number failAt (0: no error): the
\* artifacts before it are written, the others are as they were
SaveLocal(s, d, failAt) ==
    [a \in {"vectorizer", "vectors", "texts", "metadata"} |->
        IF failAt = 0 \/ (\E n \in 1..(failAt - 1) : ArtifactOrder[n] = a)
        THEN Artifacts(s)[a] ELSE d[a]]

\* a file that is there and cannot be read back (truncated, not a pickle, not
\* JSON); it differs from None and from every Some(x)
Corrupt == <<"corrupt", "corrupt">>

\* open or pickle.load / json.load of the file raises
Unreadable(a) == a = None \/ a = Corrupt

\* load_local raises when one of the three files it opens is missing or cannot
\* be unpickled
LoadFails(d) ==
    Unreadable(d.vectorizer) \/ Unreadable(d.vectors) \/ Unreadable(d.texts)

\* load_local (lines 135-163): the instance returned
LoadLocal(d) ==
    [texts |-> Val(d.texts), vectorizer |-> Val(d.vectorizer),
     vectors |-> Val(d.vectors), fitted |-> TRUE]

\* the number of rows of self.vectors
Rows(s) == IF s.vectors = None THEN 0 ELSE Len(Val(s.vectors))

\* what a call found: the fitted flag and the rows of the matrix before it
Before(s) == [fitted |-> s.fitted, rows |-> Rows(s)]

Call(op, raised) ==
    [op |-> op, raised |-> raised, arg |-> <<>>, k |-> 0, threshold |-> 0,
     result |-> <<>>, before |-> Before(EmptyStore)]

SplitIdle ==
    /\ sp_pc = "off"
    /\ chunk_size = 1
    /\ chunk_overlap = 0
    /\ text = <<>>
    /\ splits = <<>>
    /\ pos = 1
    /\ current_chunk = <<>>
    /\ chunks = <<>>
    /\ emits = <<>>
    /\ cur_inj = 0

\* the threads that call similarity_search on the one instance
Threads == {"t1", "t2"}

\* a thread that is not in a call
QIdle ==
    [pc |-> "idle", q |-> <<>>, k |-> 0, th |-> 0, saw |-> FALSE,
     store0 |-> EmptyStore, tmp |-> None, ret |-> <<>>, raised |-> FALSE]

\* the cloud mirror: embeddings/faiss_index/*, text_chunks.pkl, metadata.json
NoCloud == [index |-> None, chunks |-> None, metadata |-> None]

\* static_embeddings/ with no chunk file and no metadata file, an empty bucket
NoFiles == [chunks |-> None, metadata |-> None, cloud |-> NoCloud]

\* no ingestion running; runs counts the ingestions started, split is the
\* sequence split_text returned, gcs_success the result of save_embeddings
IngIdle(runs) ==
    [pc |-> "idle", text_chunks |-> <<>>, split |-> <<>>, gcs |-> FALSE,
     gcs_success |-> None, result |-> None,
     disk0 |-> NoDisk, fs0 |-> NoFiles, runs |-> runs]

\* (None, None, None)
NoneTriple == [vectorstore |-> None, text_chunks |-> None, metadata |-> None]

\* load_static_embeddings not called yet
LdIdle ==
    [pc |-> "idle", gcs |-> FALSE, raised |-> FALSE, result |-> NoneTriple]

\* the outcome of a chain call: whether it raised, whether it ended in the
\* handler of line 82, whether the request to the LLM failed, the answer
\* returned, and the messages of the memory as the call found them
NoOutcome ==
    [raised |-> FALSE, failed |-> FALSE, llm_failed |-> FALSE,
     question |-> <<>>, answer |-> "", before |-> <<>>]

\* a chain with a fresh LightweightMemory (lightweight_chat.py 29, 95-96)
ChatIdle == [messages |-> <<>>, calls |-> 0, out |-> NoOutcome]

\* BackendAdmin with empty directories
AdmIdle ==
    [dir |-> {}, backups |-> {}, now |-> 0, calls |-> 0,
     out |-> [op |-> "none", filename |-> "", result |-> <<>>]]

AuxIdle ==
    /\ qs = [t \in Threads |-> QIdle]
    /\ ing = IngIdle(0)
    /\ fs = NoFiles
    /\ ld = LdIdle
    /\ chat = ChatIdle
    /\ adm = AdmIdle

IndexIdle ==
    /\ store = EmptyStore
    /\ disk = NoDisk
    /\ last = Call("off", FALSE)

\* LightweightVectorStore(texts) / from_texts(texts) (lines 20-40, 198-200)
Constructed(P) ==
    /\ \E l \in {x \in SeqsUpTo(P, MaxNew) : 2 * Len(x) <= MaxTexts} :
        /\ store = Construct(l)
        /\ last = [Call("init", FALSE) EXCEPT !.arg = l]
    /\ disk = NoDisk
    /\ SplitIdle
    /\ AuxIdle

Init == Constructed(LifePool)

add_texts(P) ==
    /\ \E new \in SeqsUpTo(P, MaxNew) :
        /\ Len(store.texts) + Len(new) <= MaxTexts
        /\ store' = AddTexts(store, new)
        /\ last' = [Call("add", FALSE) EXCEPT !.arg = new, !.before = Before(store)]
    /\ UNCHANGED disk
    /\ UNCHANGED splitVars
    /\ UNCHANGED auxVars

fit ==
    /\ LET f == Fit(store) IN
        /\ store' = f.store
        /\ last' = [Call("fit", f.raised) EXCEPT !.before = Before(store)]
    /\ UNCHANGED disk
    /\ UNCHANGED splitVars
    /\ UNCHANGED auxVars

\* (the fit, the similarities and the ranking are bound as values, each
\* computed once for the queries that share it)
similarity_search(Q, K, T) ==
    /\ \E f \in {LazyFit(store)} :
        \E q \in Q :
        \E sim \in {Similarities(f.store, q)} :
        \E th \in T :
        \E rk \in {Ranked(f.store, sim, th)} :
        \E k \in K :
            LET r == SearchRanked(f, rk, k) IN
            /\ store' = r.store
            /\ last' = [op |-> "search", raised |-> r.raised, arg |-> q, k |-> k,
                        threshold |-> th, result |-> r.result,
                        before |-> Before(store)]
    /\ UNCHANGED disk
    /\ UNCHANGED splitVars
    /\ UNCHANGED auxVars

\* F: where a write may fail, 0 for a save whose writes all succeed
save_local(F) ==
    /\ \E failAt \in F :
        /\ disk' = SaveLocal(store, disk, failAt)
        /\ last' = Call("save", failAt # 0)
    /\ UNCHANGED store
    /\ UNCHANGED splitVars
    /\ UNCHANGED auxVars

\* the caller holds the instance load_local returns; when it raises, the caller
\* keeps the instance it had
load_local ==
    /\ IF LoadFails(disk)
       THEN /\ last' = Call("load", TRUE)
            /\ UNCHANGED store
       ELSE /\ last' = Call("load", FALSE)
            /\ store' = LoadLocal(disk)
    /\ UNCHANGED disk
    /\ UNCHANGED splitVars
    /\ UNCHANGED auxVars

\* the life of one index and its directory; queries ask for the best match
Next ==
    \/ add_texts(LifePool)
    \/ fit
    \/ similarity_search(LifeQueries, {1}, {0})
    \/ save_local({0})
    \/ load_local

vars == <<store, disk, last, sp_pc, chunk_size, chunk_overlap, text,
          splits, pos, current_chunk, chunks, emits, cur_inj, qs, ing, fs,
          ld, chat, adm>>

Spec == Init /\ [][Next]_vars

\* one in-memory index: texts added, fits and queries with every k and threshold
InitQuery == Constructed(LifePool)

NextQuery ==
    \/ add_texts(LifePool)
    \/ fit
    \/ similarity_search(LifeQueries, Ks, Thresholds)

SpecQuery == InitQuery /\ [][NextQuery]_vars

\* an index and its directory when a write of save_local can fail
PersistPool == {CatLaw, DogLaw}

InitPersist == Constructed(PersistPool)

NextPersist ==
    \/ add_texts(PersistPool)
    \/ fit
    \/ save_local(0..Len(ArtifactOrder))
    \/ load_local

SpecPersist == InitPersist /\ [][NextPersist]_vars

\* ---- LightweightRetriever (lines 165-194)

\* self.search_kwargs.get('k', 4) and .get('score_threshold', 0.0): the defaults
DefaultK == 4

DefaultThreshold == 0

\* the search_kwargs a retriever is made with: each key given or not
KwargSets ==
    {[k |-> a, score_threshold |-> b] :
        a \in {None, Some(1)}, b \in {None, Some(50)}}

\* dict.get(key, default)
Get(o, default) == IF o = None THEN default ELSE Val(o)

\* lines 187-192: each (text, score) pair as a document record
Documents(results) ==
    [i \in 1..Len(results) |->
        [page_content |-> results[i].text,
         metadata |-> [score |-> results[i].score]]]

\* Variant of GetRelevantDocuments: score_threshold is not passed on.
GetRelevantDocumentsNoThreshold(s, kw, q) ==
    LET r == SimilaritySearch(s, q, Get(kw.k, DefaultK), DefaultThreshold)
    IN  [store |-> r.store, raised |-> r.raised, result |-> Documents(r.result)]

\* get_relevant_documents (lines 179-194) of the retriever as_retriever(kw)
\* made on the instance s; an error of similarity_search leaves it
GetRelevantDocuments(s, kw, q) ==
    LET r == SimilaritySearch(s, q, Get(kw.k, DefaultK),
                              Get(kw.score_threshold, DefaultThreshold))
    IN  [store |-> r.store, raised |-> r.raised, result |-> Documents(r.result)]

get_relevant_documents(Q, KW) ==
    /\ \E q \in Q, kw \in KW :
        \E r \in {GetRelevantDocuments(store, kw, q)} :
            /\ store' = r.store
            /\ last' = [op |-> "retrieve", raised |-> r.raised,
                        arg |-> [query |-> q, search_kwargs |-> kw],
                        k |-> 0, threshold |-> 0, result |-> r.result,
                        before |-> Before(store)]
    /\ UNCHANGED disk
    /\ UNCHANGED splitVars
    /\ UNCHANGED auxVars

InitRetrieve == Constructed(LifePool)

NextRetrieve ==
    \/ add_texts(LifePool)
    \/ fit
    \/ get_relevant_documents(LifeQueries, KwargSets)

SpecRetrieve == InitRetrieve /\ [][NextRetrieve]_vars

\* ---- LightweightConversationChain (lightweight_chat.py)

(* Bound of the chat model: the calls of the chain *)
MaxTurns == 2

\* search_kwargs of the chain's retriever (lightweight_chat.py 50-53)
ChainKwargs == [k |-> Some(30), score_threshold |-> Some(42)]

\* the answer of the handler of __call__ (line 86) and the text LightweightLLM
\* returns when its request fails (line 156)
ChainErrorText == "An error occurred while processing your question. Please try again."

LLMErrorText == "An error occurred while generating the response."

\* what the model answers when the request succeeds
Answers == {"Per the law."}

\* inputs.get('question', ''): the questions asked
ChatQuestions == {CatLaw, <<"cat">>}

\* LightweightMemory.add_user_message / add_ai_message (lines 98-104)
AddUserMessage(ms, m) == Append(ms, [role |-> "user", content |-> m])

AddAiMessage(ms, m) == Append(ms, [role |-> "assistant", content |-> m])

\* LightweightLLM.__call__ (lines 144-156): the content of the response, or the
\* error text when the request raised
LLM(reply) == IF reply = None THEN LLMErrorText ELSE Val(reply)

\* LightweightConversationChain.__call__ with the user message recorded before
\* the retrieval
ChainCallRecordsFirst(s, ms, q, reply) ==
    LET r == GetRelevantDocuments(s, ChainKwargs, q) IN
    IF r.raised
    THEN [store |-> r.store, failed |-> TRUE, answer |-> ChainErrorText,
          messages |-> AddUserMessage(ms, q)]
    ELSE [store |-> r.store, failed |-> FALSE, answer |-> LLM(reply),
          messages |-> AddAiMessage(AddUserMessage(ms, q), LLM(reply))]

\* LightweightConversationChain.__call__ (lines 44-89) on the vector store s and
\* the memory ms: the documents are retrieved (an error of the retriever ends
\* the call in the handler of line 82, with the memory as it was), the LLM is
\* asked, and the question and then the answer are added to the memory
ChainCall(s, ms, q, reply) ==
    LET r == GetRelevantDocuments(s, ChainKwargs, q) IN
    IF r.raised
    THEN [store |-> r.store, failed |-> TRUE, answer |-> ChainErrorText,
          messages |-> ms]
    ELSE [store |-> r.store, failed |-> FALSE, answer |-> LLM(reply),
          messages |-> AddAiMessage(AddUserMessage(ms, q), LLM(reply))]

\* one call of the chain; the request to the LLM fails (None) or is answered
chain_call ==
    /\ chat.calls < MaxTurns
    /\ \E q \in ChatQuestions :
       \E reply \in {None} \cup {Some(a) : a \in Answers} :
       \E c \in {ChainCall(store, chat.messages, q, reply)} :
        /\ store' = c.store
        /\ chat' = [calls |-> chat.calls + 1,
                    messages |-> c.messages,
                    out |-> [raised |-> FALSE, failed |-> c.failed,
                             llm_failed |-> ~c.failed /\ reply = None,
                             question |-> q, answer |-> c.answer,
                             before |-> chat.messages]]
    /\ UNCHANGED <<disk, last>>
    /\ UNCHANGED splitVars
    /\ UNCHANGED <<qs, ing, fs, ld, adm>>

\* the texts a caller adds to the store the chain reads
ChatPool == {CatLaw, DogLaw}

InitChat == Constructed(ChatPool)

NextChat ==
    \/ add_texts(ChatPool)
    \/ chain_call

SpecChat == InitChat /\ [][NextChat]_vars

\* ---- BackendAdmin (backend_admin.py): the pdfs directory and its backups

(* Bound of the administration model: the calls of delete_pdf *)
MaxDeletes == 2

\* names of uploaded files; the suffix check of upload_pdf ignores case
PdfNames == {"a.pdf", "b.pdf", "C.PDF"}

\* path.replace('.pdf', '_metadata.json') (lines 77, 140): a name without a
\* lower-case ".pdf" is left as it is
MetadataFile(n) ==
    CASE n = "a.pdf" -> "a_metadata.json"
      [] n = "b.pdf" -> "b_metadata.json"
      [] OTHER -> n

\* the result dicts (lines 155-159, 161-166; 84-88, 90-93)
Success(path) == [success |-> TRUE, error |-> "", backup_created |-> path]

Failure(e) == [success |-> FALSE, error |-> e, backup_created |-> None]

\* the backup file deleted_<timestamp>_<filename> (line 146)
BackupPath(t, n) == [timestamp |-> t, filename |-> n]

\* shutil.copy2 to a backup path: the file at that path is replaced; a copy
\* that fails may leave a partial file behind
WriteBackup(bk, path, complete) ==
    {b \in bk : b.path # path} \cup {[path |-> path, complete |-> complete]}

\* delete_pdf with the file removed before it is copied
DeletePdfRemovesFirst(d, bk, filename, t, fail, partial) ==
    IF filename \notin d
    THEN [dir |-> d, backups |-> bk, result |-> Failure("not found")]
    ELSE IF fail = "remove"
    THEN [dir |-> d, backups |-> bk, result |-> Failure("remove")]
    ELSE [dir |-> d \ {filename}, backups |-> bk, result |-> Failure("copy")]

\* BackendAdmin.delete_pdf (lines 136-166) on the directory d and the backups
\* bk at time t; fail names the file-system call that raises, if any
DeletePdf(d, bk, filename, t, fail, partial) ==
    LET backup_path == BackupPath(t, filename)
        metadata_file == MetadataFile(filename)
        copied == WriteBackup(bk, backup_path, TRUE)
        removed == d \ {filename}
    IN  IF filename \notin d
        THEN [dir |-> d, backups |-> bk, result |-> Failure("not found")]
        ELSE IF fail = "copy"
        THEN [dir |-> d,
              backups |-> IF partial THEN WriteBackup(bk, backup_path, FALSE)
                          ELSE bk,
              result |-> Failure("copy")]
        ELSE IF fail = "remove"
        THEN [dir |-> d, backups |-> copied, result |-> Failure("remove")]
        ELSE IF metadata_file \in removed /\ fail = "remove metadata"
        THEN [dir |-> removed, backups |-> copied,
              result |-> Failure("remove metadata")]
        ELSE [dir |-> removed \ {metadata_file}, backups |-> copied,
              result |-> Success(Some(backup_path))]

AdmFrame ==
    /\ UNCHANGED <<store, disk, last>>
    /\ UNCHANGED splitVars
    /\ UNCHANGED <<qs, ing, fs, ld, chat>>

\* one call of delete_pdf; the clock (seconds) has advanced or not
delete_pdf ==
    /\ adm.calls < MaxDeletes
    /\ \E filename \in PdfNames :
       \E t \in {adm.now, adm.now + 1} :
       \E fail \in {"none", "copy", "remove", "remove metadata"} :
       \E partial \in BOOLEAN :
       \E r \in {DeletePdf(adm.dir, adm.backups, filename, t, fail, partial)} :
        adm' = [dir |-> r.dir, backups |-> r.backups, now |-> t,
                calls |-> adm.calls + 1,
                out |-> [op |-> "delete", filename |-> filename,
                         result |-> r.result]]
    /\ AdmFrame

\* BackendAdmin.upload_pdf (lines 40-93): the file is copied into the directory
\* (line 63) and its metadata written beside it (lines 77-79); either write
\* may fail
upload_pdf ==
    /\ \E n \in PdfNames \ adm.dir :
       \E fail \in {"none", "copy", "metadata"} :
        adm' = [adm EXCEPT
            !.dir = IF fail = "copy" THEN @
                    ELSE IF fail = "metadata" THEN @ \cup {n}
                    ELSE @ \cup {n, MetadataFile(n)},
            !.out = [op |-> "upload", filename |-> n,
                     result |-> IF fail = "none" THEN Success(None)
                                ELSE Failure(fail)]]
    /\ AdmFrame

InitAdmin ==
    /\ store = Construct(<<>>)
    /\ disk = NoDisk
    /\ last = Call("off", FALSE)
    /\ SplitIdle
    /\ AuxIdle

NextAdmin ==
    \/ upload_pdf
    \/ delete_pdf

SpecAdmin == InitAdmin /\ [][NextAdmin]_vars

\* ---- similarity_search line by line, for callers that share the instance.
\* A thread's step is one statement; between two steps the other thread may run.

\* the return of a call: its result, or the exception that left it
QReturn(c, ret, raised) ==
    [c EXCEPT !.pc = "done", !.tmp = None, !.ret = ret, !.raised = raised]

\* the frame of a thread's step
QFrame ==
    /\ UNCHANGED <<disk, last>>
    /\ UNCHANGED splitVars
    /\ UNCHANGED ingVars
    /\ UNCHANGED appVars

\* the call, with its arguments; store0 is the instance as the call found it
q_call(t, Q, K, T) ==
    /\ qs[t].pc = "idle"
    /\ \E q \in Q, k \in K, th \in T :
        qs' = [qs EXCEPT ![t] = [QIdle EXCEPT !.pc = "l76", !.q = q, !.k = k,
                                              !.th = th, !.store0 = store]]
    /\ UNCHANGED store
    /\ QFrame

\* line 76: `if not self._fitted`
q_l76(t) ==
    /\ qs[t].pc = "l76"
    /\ qs' = [qs EXCEPT ![t].pc = IF NeedsFit(store) THEN "l52" ELSE "l79",
                         ![t].saw = ~NeedsFit(store)]
    /\ UNCHANGED store
    /\ QFrame

\* fit, lines 52-54: `if not self.texts: return`
q_l52(t) ==
    /\ qs[t].pc = "l52"
    /\ qs' = [qs EXCEPT ![t].pc = IF store.texts = <<>> THEN "l79" ELSE "l57"]
    /\ UNCHANGED store
    /\ QFrame

\* fit, line 57, the call self.vectorizer.fit_transform(self.texts): it raises
\* (and fit re-raises, line 62, out of similarity_search), or it fits the
\* vectorizer in place and returns the matrix
q_l57(t) ==
    /\ qs[t].pc = "l57"
    /\ LET ft == FitTable[store.texts] IN
       IF ft.raises
       THEN /\ qs' = [qs EXCEPT ![t] = QReturn(@, <<>>, TRUE)]
            /\ UNCHANGED store
       ELSE /\ store' = [store EXCEPT !.vectorizer = ft.vectorizer]
            /\ qs' = [qs EXCEPT ![t].pc = "l57s", ![t].tmp = ft.vectors]
    /\ QFrame

\* fit, line 57, the assignment self.vectors = ...
q_l57s(t) ==
    /\ qs[t].pc = "l57s"
    /\ store' = [store EXCEPT !.vectors = qs[t].tmp]
    /\ qs' = [qs EXCEPT ![t].pc = "l58", ![t].tmp = None]
    /\ QFrame

\* fit, line 58: self._fitted = True
q_l58(t) ==
    /\ qs[t].pc = "l58"
    /\ store' = [store EXCEPT !.fitted = TRUE]
    /\ qs' = [qs EXCEPT ![t].pc = "l79"]
    /\ QFrame

\* lines 79-80: `if not self._fitted or self.vectors is None: return []`
q_l79(t) ==
    /\ qs[t].pc = "l79"
    /\ qs' = [qs EXCEPT ![t] = IF ~store.fitted \/ store.vectors = None
                               THEN QReturn(@, <<>>, FALSE)
                               ELSE [@ EXCEPT !.pc = "l84"]]
    /\ UNCHANGED store
    /\ QFrame

\* line 84: query_vector = self.vectorizer.transform([query]); on a vectorizer
\* that is not fitted it raises, which lines 99-101 turn into []
q_l84(t) ==
    /\ qs[t].pc = "l84"
    /\ qs' = [qs EXCEPT ![t] =
                 IF store.vectorizer = None
                 THEN QReturn(@, <<>>, FALSE)
                 ELSE [@ EXCEPT !.pc = "l87",
                                !.tmp = Some(Transform(Val(store.vectorizer),
                                                       qs[t].q))]]
    /\ UNCHANGED store
    /\ QFrame

\* line 87: similarities = cosine_similarity(query_vector, self.vectors)
q_l87(t) ==
    /\ qs[t].pc = "l87"
    /\ qs' = [qs EXCEPT ![t] =
                 IF store.vectors = None
                 THEN QReturn(@, <<>>, FALSE)
                 ELSE LET sim == CosineAll(Val(@.tmp), Val(store.vectors)) IN
                      IF sim.failed THEN QReturn(@, <<>>, FALSE)
                      ELSE [@ EXCEPT !.pc = "l90", !.tmp = Some(sim)]]
    /\ UNCHANGED store
    /\ QFrame

\* lines 90-97: the loop over the similarities, which reads self.texts, the
\* sort and the return
q_l90(t) ==
    /\ qs[t].pc = "l90"
    /\ qs' = [qs EXCEPT ![t] =
                 QReturn(@, Take(Ranked(store, Val(@.tmp), @.th), @.k), FALSE)]
    /\ UNCHANGED store
    /\ QFrame

\* the caller has the result and may call again
q_done(t) ==
    /\ qs[t].pc = "done"
    /\ qs' = [qs EXCEPT ![t] = QIdle]
    /\ UNCHANGED store
    /\ QFrame

\* the instances the threads may share: constructed, constructed and fitted,
\* or saved as constructed and loaded
SharedStores ==
    LET built == {Construct(l) : l \in {x \in SeqsUpTo(LifePool, MaxNew) :
                                            2 * Len(x) <= MaxTexts}}
    IN  built \cup {Fit(s).store : s \in built}
              \cup {LoadLocal(Artifacts(s)) : s \in built}

ConcQueries == {CatLaw, <<"cat">>}

InitConc ==
    /\ store \in SharedStores
    /\ disk = NoDisk
    /\ last = Call("off", FALSE)
    /\ SplitIdle
    /\ AuxIdle

NextConc ==
    \E t \in Threads :
        \/ q_call(t, ConcQueries, Ks, {0, 50})
        \/ q_l76(t)
        \/ q_l52(t)
        \/ q_l57(t)
        \/ q_l57s(t)
        \/ q_l58(t)
        \/ q_l79(t)
        \/ q_l84(t)
        \/ q_l87(t)
        \/ q_l90(t)
        \/ q_done(t)

SpecConc == InitConc /\ [][NextConc]_vars

\* ---- ingestion: create_embeddings (admin_setup.py, lines 64-151) and
\* create_static_embeddings (app.py, lines 126-177), which run the same steps

(* Bound of the ingestion model: the ingestions started *)
MaxRuns == 2

\* the chunk lists split_text hands to the ingestion
IngestPool == {CatLaw, DogLaw}

ChunkLists == {l \in SeqsUpTo(IngestPool, MaxNew) : l # <<>> /\ 2 * Len(l) <= MaxTexts}

\* the return of the ingestion
IngReturn(c, ok) == [c EXCEPT !.pc = "returned", !.result = Some(ok)]

\* (ld records a load up to the next step on the artifacts)
IngFrame ==
    /\ UNCHANGED last
    /\ UNCHANGED splitVars
    /\ UNCHANGED qs
    /\ ld' = LdIdle
    /\ UNCHANGED <<chat, adm>>

\* up to the chunks (admin_setup.py 66-99, app.py 128-137): no PDF or no text
\* extracted ends the ingestion with False; else text_chunks is the split text
ingest_call ==
    /\ ing.pc = "idle"
    /\ ing.runs < MaxRuns
    /\ \E gcs \in BOOLEAN :
        LET c == [IngIdle(ing.runs + 1) EXCEPT !.gcs = gcs, !.disk0 = disk, !.fs0 = fs]
        IN  \/ ing' = IngReturn(c, FALSE)
            \/ \E l \in ChunkLists :
                    ing' = [c EXCEPT !.pc = "build", !.text_chunks = l, !.split = l]
    /\ UNCHANGED <<store, disk, fs>>
    /\ IngFrame

\* Variant of BuildIndex: a fit that fails is logged and not raised.
BuildIndexSwallows(l) ==
    LET s == Construct(l)
        f == Fit(s)
    IN  [store |-> f.store, raised |-> FALSE]

\* vectorstore = from_texts(texts=text_chunks); vectorstore.fit()
\* (admin_setup.py 101-102, app.py 140-141)
BuildIndex(l) ==
    LET s == Construct(l)
        f == Fit(s)
    IN  [store |-> f.store, raised |-> f.raised]

\* the index is built; text_chunks is the list the index holds as its corpus
\* (the constructor keeps the caller's list and extends it); a fit that raises
\* ends the ingestion with False
ingest_build ==
    /\ ing.pc = "build"
    /\ LET b == BuildIndex(ing.text_chunks) IN
        /\ store' = b.store
        /\ ing' = IF b.raised
                   THEN IngReturn([ing EXCEPT !.text_chunks = b.store.texts], FALSE)
                   ELSE [ing EXCEPT !.pc = "save", !.text_chunks = b.store.texts]
    /\ UNCHANGED <<disk, fs>>
    /\ IngFrame

\* vectorstore.save_local(...) (admin_setup.py 106, app.py 145); an error in
\* a write leaves the files written before it
ingest_save ==
    /\ ing.pc = "save"
    /\ \E failAt \in 0..Len(ArtifactOrder) :
        /\ disk' = SaveLocal(store, disk, failAt)
        /\ ing' = IF failAt # 0 THEN IngReturn(ing, FALSE)
                   ELSE [ing EXCEPT !.pc = "chunks"]
    /\ UNCHANGED <<store, fs>>
    /\ IngFrame

\* pickle.dump(text_chunks, ...) to the chunk file (admin_setup.py 109-110,
\* app.py 148-149)
ingest_chunks ==
    /\ ing.pc = "chunks"
    /\ \/ /\ fs' = [fs EXCEPT !.chunks = Some(ing.text_chunks)]
          /\ ing' = [ing EXCEPT !.pc = "metadata"]
       \/ /\ UNCHANGED fs
          /\ ing' = IngReturn(ing, FALSE)
    /\ UNCHANGED <<store, disk>>
    /\ IngFrame

\* the metadata of admin_setup.py 113-122 and app.py 152-158, the fields kept
Metadata(c) == [num_chunks |-> Len(c.text_chunks), gcs |-> c.gcs]

\* json.dump(metadata, ...) to the metadata file (admin_setup.py 124-125,
\* app.py 159-160)
ingest_metadata ==
    /\ ing.pc = "metadata"
    /\ \/ /\ fs' = [fs EXCEPT !.metadata = Some(Metadata(ing))]
          /\ ing' = [ing EXCEPT !.pc = "mirror"]
       \/ /\ UNCHANGED fs
          /\ ing' = IngReturn(ing, FALSE)
    /\ UNCHANGED <<store, disk>>
    /\ IngFrame

\* GCSStorage.save_embeddings (gcs_storage.py 42-93): the index directory, the
\* chunks and the metadata are uploaded in this order; an error stops it and
\* leaves what was uploaded before.  failAt 0: no error.
SaveEmbeddings(cloud, s, c, failAt) ==
    [index |-> IF failAt = 0 \/ failAt > 1 THEN Some(Artifacts(s)) ELSE cloud.index,
     chunks |-> IF failAt = 0 \/ failAt > 2 THEN Some(c.text_chunks) ELSE cloud.chunks,
     metadata |-> IF failAt = 0 THEN Some(Metadata(c)) ELSE cloud.metadata]

\* Variant of AfterMirror: the result of the mirror is the result of the
\* ingestion.
AfterMirrorPropagates(c, ok) ==
    IngReturn([c EXCEPT !.gcs_success = Some(ok)], ok)

\* after save_embeddings returned ok (admin_setup.py 131-147, app.py 165-174):
\* gcs_success is logged and the ingestion returns True
AfterMirror(c, ok) ==
    IngReturn([c EXCEPT !.gcs_success = Some(ok)], TRUE)

\* the mirror step (admin_setup.py 128-147, app.py 163-174): save_embeddings
\* runs when the cloud store is in use, and its result is only logged
ingest_mirror ==
    /\ ing.pc = "mirror"
    /\ IF ing.gcs
       THEN \E failAt \in 0..3 :
                /\ fs' = [fs EXCEPT
                             !.cloud = SaveEmbeddings(fs.cloud, store, ing, failAt)]
                /\ ing' = AfterMirror(ing, failAt = 0)
       ELSE /\ UNCHANGED fs
            /\ ing' = IngReturn(ing, TRUE)
    /\ UNCHANGED <<store, disk>>
    /\ IngFrame

\* the caller has the result; another ingestion may start
ingest_done ==
    /\ ing.pc = "returned"
    /\ ing' = [ing EXCEPT !.pc = "idle"]
    /\ UNCHANGED <<store, disk, fs>>
    /\ IngFrame

InitIngest ==
    /\ IndexIdle
    /\ SplitIdle
    /\ AuxIdle

NextIngest ==
    \/ ingest_call
    \/ ingest_build
    \/ ingest_save
    \/ ingest_chunks
    \/ ingest_metadata
    \/ ingest_mirror
    \/ ingest_done

SpecIngest == InitIngest /\ [][NextIngest]_vars

\* ---- serving: load_static_embeddings (app.py, lines 52-102) over the
\* artifacts the ingestions left

Triple(s, c, m) ==
    [vectorstore |-> Some(s), text_chunks |-> Some(c), metadata |-> Some(m)]

\* the value of a call that returned v, and of one left by an exception
Returned(v) == [raised |-> FALSE, value |-> v]

Raised == [raised |-> TRUE, value |-> NoneTriple]

\* GCSStorage.load_embeddings (gcs_storage.py 95-153): no metadata blob is
\* (None, None, None); then the metadata, the chunks and the index files are
\* downloaded and read, and any error is caught and is (None, None, None)
LoadEmbeddings(cloud) ==
    IF cloud.metadata = None THEN NoneTriple
    ELSE IF \/ Unreadable(cloud.metadata)
            \/ Unreadable(cloud.chunks)
            \/ cloud.index = None
         THEN NoneTriple
         ELSE IF LoadFails(Val(cloud.index)) THEN NoneTriple
              ELSE Triple(LoadLocal(Val(cloud.index)), Val(cloud.chunks),
                          Val(cloud.metadata))

\* os.path.exists(EMBEDDINGS_PATH) (app.py 66): the directory is there once a
\* save has written into it
DirExists(d) == \E a \in DOMAIN d : d[a] # None

\* the dict {} of app.py 89
EmptyDict == <<>>

\* app.py 66-98: the local artifacts.  An error in load_local or in reading the
\* chunk file is caught there (70-72, 84-86); an error in reading the metadata
\* file (90-92) leaves the block
LoadStaticLocal(d, f) ==
    IF DirExists(d) /\ f.chunks # None
    THEN IF LoadFails(d) THEN Returned(NoneTriple)
         ELSE IF f.chunks = Corrupt THEN Returned(NoneTriple)
         ELSE IF f.metadata = Corrupt THEN Raised
         ELSE Returned(Triple(LoadLocal(d), Val(f.chunks),
                              IF f.metadata = None THEN EmptyDict
                              ELSE Val(f.metadata)))
    ELSE Returned(NoneTriple)

\* app.py 55-98, the body of the try: the cloud store first when it is in use,
\* the local artifacts when it gave nothing
LoadStaticBody(gcs, d, f) ==
    LET c == IF gcs THEN LoadEmbeddings(f.cloud) ELSE NoneTriple
    IN  IF c.vectorstore # None THEN Returned(c) ELSE LoadStaticLocal(d, f)

\* Variant of LoadStaticEmbeddings: without the handler of lines 99-102.
LoadStaticEmbeddingsBare(gcs, d, f) == LoadStaticBody(gcs, d, f)

\* load_static_embeddings (app.py 52-102): any error that leaves the body is
\* caught (99-102) and is (None, None, None)
LoadStaticEmbeddings(gcs, d, f) ==
    LET b == LoadStaticBody(gcs, d, f)
    IN  IF b.raised THEN Returned(NoneTriple) ELSE b

ServeFrame ==
    /\ UNCHANGED last
    /\ UNCHANGED splitVars
    /\ UNCHANGED qs
    /\ UNCHANGED <<chat, adm>>

\* a call of load_static_embeddings, with the cloud store in use or not
load_static_embeddings ==
    /\ ing.pc \in {"idle", "returned"}
    /\ \E gcs \in BOOLEAN :
        LET r == LoadStaticEmbeddings(gcs, disk, fs) IN
        ld' = [ld EXCEPT !.pc = "returned", !.gcs = gcs, !.raised = r.raised,
                         !.result = r.value]
    /\ UNCHANGED <<store, disk, fs, ing>>
    /\ ServeFrame

InitServe ==
    /\ IndexIdle
    /\ SplitIdle
    /\ AuxIdle

NextServe ==
    \/ ingest_call
    \/ ingest_build
    \/ ingest_save
    \/ ingest_chunks
    \/ ingest_metadata
    \/ ingest_mirror
    \/ ingest_done
    \/ load_static_embeddings

SpecServe == InitServe /\ [][NextServe]_vars

\* ---- load_static_embeddings over every state of the artifacts: each file,
\* locally and in the bucket, is missing, unreadable, or as an ingestion wrote it

\* what the ingestion of a chunk list writes when every step succeeds
Snapshot(l, gcs) ==
    LET s == BuildIndex(l).store
        c == [IngIdle(1) EXCEPT !.text_chunks = s.texts, !.gcs = gcs]
    IN  [index |-> Artifacts(s), chunks |-> Some(s.texts),
         metadata |-> Some(Metadata(c))]

\* the local artifacts are what is left of one ingestion, the bucket holds
\* what is left of an earlier one
LocalSnapshot == Snapshot(<<DogLaw, CatLaw>>, TRUE)

CloudSnapshot == Snapshot(<<CatLaw, DogLaw>>, TRUE)

\* a file written as a: as written, missing, or unreadable
FileKinds == {"written", "missing", "corrupt"}

FileAs(kind, a) ==
    CASE kind = "missing" -> None
      [] kind = "corrupt" -> Corrupt
      [] OTHER -> a

\* a directory written as d, each of its files in the state kinds gives it
DirAs(kinds, d) == [a \in DOMAIN d |-> FileAs(kinds[a], d[a])]

IndexFiles == {"vectorizer", "vectors", "texts", "metadata"}

\* the states of an index directory: never written, or written with at most
\* one of the three files a load opens missing or unreadable since
IndexKinds ==
    {k \in [IndexFiles -> FileKinds] :
        \/ \A a \in IndexFiles : k[a] = "missing"
        \/ /\ k["metadata"] = "written"
           /\ Cardinality({a \in IndexFiles : k[a] # "written"}) <= 1}

InitLoad ==
    /\ store = EmptyStore
    /\ last = Call("off", FALSE)
    /\ \E local \in {LocalSnapshot}, cloud \in {CloudSnapshot} :
        /\ \E kinds \in IndexKinds : disk = DirAs(kinds, local.index)
        /\ \E ch, md, cc, cm \in FileKinds :
           \E kinds \in IndexKinds :
           \E uploaded \in {\E a \in IndexFiles : kinds[a] # "missing"} :
                fs = [chunks |-> FileAs(ch, local.chunks),
                      metadata |-> FileAs(md, local.metadata),
                      cloud |->
                        [index |-> IF uploaded
                                   THEN Some(DirAs(kinds, cloud.index))
                                   ELSE None,
                         chunks |-> FileAs(cc, cloud.chunks),
                         metadata |-> FileAs(cm, cloud.metadata)]]
    /\ SplitIdle
    /\ qs = [t \in Threads |-> QIdle]
    /\ ing = IngIdle(0)
    /\ ld = LdIdle
    /\ chat = ChatIdle
    /\ adm = AdmIdle

NextLoad == load_static_embeddings

SpecLoad == InitLoad /\ [][NextLoad]_vars

\* the splitter alone: the index is left as constructed empty
InitSplit == SplitInit /\ IndexIdle /\ AuxIdle

SpecSplit == InitSplit /\ [][SplitNext]_vars

\* the texts of one letter, blanks and separators
LiveTexts == UNION {[1..n -> Alphabet \ {"b"}] : n \in 0..MaxTextLen}

SplitNextLive == SplitTextCallOf(LiveTexts) \/ SplitLoop \/ SplitFlush

\* a call of split_text that is made and, once made, runs on: the code is
\* sequential and nothing in it waits
SpecSplitLive == InitSplit /\ [][SplitNextLive]_vars /\ WF_vars(SplitNextLive)

-----------------------------------------------------------------------------
(* Properties of LightweightVectorStore *)

Distinct(c) == \A i, j \in 1..Len(c) : i # j => c[i] # c[j]

\* the score of every chunk for query q on a fitted store
ScoresOf(s, q) == Similarities(s, q).sc

\* C1 (as claimed): similarity_search never raises to its caller; a failed lazy
\* fit gives an empty result.
C1_SearchNeverRaises ==
    last.op = "search" => ~last.raised

\* C3 (as claimed): whenever the fitted flag is true, the matrix has one row per
\* chunk of the corpus, after any sequence of add, fit, query, save and load.
C3_FittedRowsMatchCorpus ==
    store.fitted => (store.vectors # None /\ Rows(store) = Len(store.texts))

\* C4 (as claimed): an index just saved and the index loaded from what was saved
\* answer every query, k and threshold alike, whatever state the index was saved
\* in.
C4_SaveLoadSameResults ==
    (last.op = "save" /\ ~last.raised) =>
        \A q \in Queries, k \in Ks, th \in Thresholds :
            LET before == SimilaritySearch(store, q, k, th)
                after == SimilaritySearch(LoadLocal(disk), q, k, th)
            IN  ~before.raised => (~after.raised /\ after.result = before.result)

\* C8 (as claimed): an index constructed from a list of n texts holds exactly
\* those n texts, in order, each once, and is unfitted.
C8_ConstructedCorpusIsTheList ==
    last.op = "init" => (store.texts = last.arg /\ ~store.fitted)

\* C9 (as claimed): on a corpus of at least 2 distinct chunks, a query for the
\* text of chunk i with k = 1 and threshold 0 returns chunk i, with the maximum
\* score of all chunks.
C9_SelfQueryReturnsChunk ==
    (/\ last.op = "search"
     /\ last.k = 1
     /\ last.threshold = 0
     /\ Len(store.texts) >= 2
     /\ Distinct(store.texts)
     /\ \E i \in 1..Len(store.texts) : store.texts[i] = last.arg)
    => /\ ~last.raised
       /\ Len(last.result) = 1
       /\ last.result[1].text = last.arg
       /\ \A i \in 1..Len(store.texts) :
              ~ScoreLess(last.result[1].score, ScoresOf(store, last.arg)[i])

\* C10 (as claimed): on the corpus ["cat law", "dog law", "space law"] the query
\* "cat" with k = 1 and threshold 0 returns "cat law", whose score is strictly
\* higher than the score of every other chunk.
C10_CatLawIsTop ==
    (/\ last.op = "search"
     /\ last.arg = <<"cat">>
     /\ last.k = 1
     /\ last.threshold = 0
     /\ store.texts = <<CatLaw, DogLaw, SpaceLaw>>)
    => /\ ~last.raised
       /\ Len(last.result) = 1
       /\ last.result[1].text = CatLaw
       /\ \A i \in 2..3 : ScoreLess(ScoresOf(store, last.arg)[i], last.result[1].score)

\* C11: similarity_search returns at most k results, and every returned score
\* is at or above score_threshold.
C11_AtMostKAboveThreshold ==
    last.op = "search" =>
        /\ Len(last.result) <= last.k
        /\ \A n \in 1..Len(last.result) :
               AtLeast(last.result[n].score, last.threshold)

\* C11 witness: a query that cut the results to k = 1 and whose threshold left
\* a chunk out
C11_Witness ==
    /\ last.op = "search"
    /\ ~last.raised
    /\ store.fitted
    /\ last.k = 1
    /\ last.threshold = 50
    /\ Len(last.result) = 1
    /\ LET sc == ScoresOf(store, last.arg) IN
        /\ Cardinality({i \in 1..Len(sc) : AtLeast(sc[i], last.threshold)}) >= 2
        /\ \E i \in 1..Len(sc) : ~AtLeast(sc[i], last.threshold)

\* row i stands before row j in the ranking: a higher score, or the same score
\* and an earlier place in the corpus
RanksBefore(sc, i, j) ==
    \/ ScoreLess(sc[j], sc[i])
    \/ ~ScoreLess(sc[i], sc[j]) /\ i < j

\* C12: the results are by descending score, equal scores in corpus order, and
\* they are the first k of that ordering of all the chunks at or above the
\* threshold: the results are rows ix[1], ix[2], ... each ranked before the
\* next and before every qualifying row that was not returned.
C12_SortedStableTopK ==
    (last.op = "search" /\ ~last.raised /\ store.fitted) =>
        \A sc \in {ScoresOf(store, last.arg)} :
        \A keep \in {{i \in 1..Len(sc) : AtLeast(sc[i], last.threshold)}} :
        LET r == last.result
        IN  /\ Len(r) = (IF Cardinality(keep) < last.k THEN Cardinality(keep) ELSE last.k)
            /\ \E ix \in [1..Len(r) -> keep] :
                   /\ \A n \in 1..Len(r) :
                          r[n] = [text |-> store.texts[ix[n]], score |-> sc[ix[n]]]
                   /\ \A n \in 1..(Len(r) - 1) : RanksBefore(sc, ix[n], ix[n + 1])
                   /\ \A i \in keep \ {ix[n] : n \in 1..Len(r)} :
                          \A n \in 1..Len(r) : RanksBefore(sc, ix[n], i)

\* C12 witness: two different chunks with the same score returned in corpus
\* order, other qualifying chunks cut off by k
C12_Witness ==
    /\ last.op = "search"
    /\ ~last.raised
    /\ store.fitted
    /\ last.k = 2
    /\ Len(last.result) = 2
    /\ last.result[1].score = last.result[2].score
    /\ last.result[1].text # last.result[2].text
    /\ Len(store.texts) = 4

\* the store a fresh instance holds after add_texts(corpus) and fit()
FreshFit(corpus) == Fit(AddTexts(EmptyStore, corpus))

\* C13: on one in-memory instance, a fitted index always holds the matrix of a
\* fit over its whole current corpus, and a query that found the index dirty
\* and returned has fitted it and ranked against that matrix.
C13_DirtyQueryFitsFirst ==
    /\ store.fitted =>
           /\ ~FreshFit(store.texts).raised
           /\ store.vectors = FreshFit(store.texts).store.vectors
           /\ store.vectorizer = FreshFit(store.texts).store.vectorizer
    /\ (/\ last.op = "search"
        /\ ~last.before.fitted
        /\ ~last.raised
        /\ store.texts # <<>>)
       => /\ store.fitted
          /\ last.result = SimilaritySearch(FreshFit(store.texts).store, last.arg,
                                            last.k, last.threshold).result

\* C13 witness: a query on an index with texts added after its last fit, which
\* fitted it over the longer corpus and returned a chunk
C13_Witness ==
    /\ last.op = "search"
    /\ ~last.raised
    /\ ~last.before.fitted
    /\ last.before.rows > 0
    /\ last.before.rows < Len(store.texts)
    /\ Rows(store) = Len(store.texts)
    /\ Len(last.result) >= 1

\* C14 (as claimed): fit raises when the vectorizer's fit errors, in particular
\* when no term is within the document-frequency bounds, and after a fit that
\* raised the index is unfitted.
C14_FailedFitLeavesUnfitted ==
    last.op = "fit" =>
        /\ (store.texts # <<>> /\ FitFails(store.texts)) => last.raised
        /\ last.raised => ~store.fitted

\* C15 (as claimed): on an index with an empty corpus fit returns normally and
\* leaves the index unfitted with no matrix, and a query returns an empty
\* sequence without raising.
C15_EmptyCorpusStaysUnfitted ==
    store.texts = <<>> =>
        /\ last.op = "fit" =>
               (~last.raised /\ ~store.fitted /\ store.vectors = None)
        /\ last.op = "search" => (~last.raised /\ last.result = <<>>)

\* C16: add_texts with a non-empty list appends the texts, in order, at the end
\* of the corpus, sets the index unfitted and leaves the chunks it had, the
\* matrix and the vectorizer as they were; with an empty list it changes
\* nothing, and a fitted index stays fitted.
C16_AddAppendsAndInvalidates ==
    [][last'.op = "add" =>
          IF last'.arg # <<>>
          THEN /\ store'.texts = store.texts \o last'.arg
               /\ ~store'.fitted
               /\ store'.vectors = store.vectors
               /\ store'.vectorizer = store.vectorizer
          ELSE store' = store]_vars

\* C16 witness: texts added to a fitted index, which keeps its matrix
C16_Witness ==
    /\ last.op = "add"
    /\ last.arg # <<>>
    /\ last.before.fitted
    /\ ~store.fitted
    /\ Rows(store) > 0
    /\ Rows(store) < Len(store.texts)

\* C17 (as claimed): save and load raise whenever one of the four artifacts
\* cannot be written or is missing: a save that returned wrote all four, and a
\* load from a directory that lacks any one of the four raises.
C17_SaveLoadFailLoudly ==
    /\ (last.op = "save" /\ ~last.raised) => disk = Artifacts(store)
    /\ last.op = "load" =>
           ((\E a \in DOMAIN disk : disk[a] = None) => last.raised)

\* C18: every fit is a full refit over the whole current corpus: after a fit,
\* whatever was added and fitted before, the index has the fitted flag, the
\* vocabulary, the weights and the matrix of a fresh instance given the same
\* corpus and fitted once, and answers every query as that instance does.
C18_FitIsFullRefit ==
    (last.op = "fit" /\ store.texts # <<>>) =>
        \A fresh \in {FreshFit(store.texts)} :
        /\ last.raised = fresh.raised
        /\ store.fitted = fresh.store.fitted
        /\ store.fitted =>
               /\ store.vectorizer = fresh.store.vectorizer
               /\ store.vectors = fresh.store.vectors
               /\ store.texts = fresh.store.texts
        /\ \A q \in LifeQueries, k \in Ks, th \in Thresholds :
               LET mine == SimilaritySearch(store, q, k, th)
                   other == SimilaritySearch(fresh.store, q, k, th)
               IN  mine.raised = other.raised /\ mine.result = other.result

\* C18 witness: a fit over a corpus that grew since an earlier fit, whose
\* vocabulary is not the one the earlier fit had built
C18_Witness ==
    /\ last.op = "fit"
    /\ ~last.raised
    /\ last.before.rows >= 3
    /\ last.before.rows < Len(store.texts)
    /\ store.vectorizer #
           FreshFit(SubSeq(store.texts, 1, last.before.rows)).store.vectorizer

\* C19: a similarity_search called on a fitted index writes no field of it,
\* so queries that run concurrently on a fitted index that nothing else mutates
\* each return what the query returns when it runs alone: when such a call
\* returns, the index is as the call found it, the call did not raise, and its
\* result is the result of the uninterrupted similarity_search on that index.
C19_ConcurrentQueriesReadOnly ==
    \A t \in Threads :
        (qs[t].pc = "done" /\ qs[t].store0.fitted) =>
            /\ store = qs[t].store0
            /\ ~qs[t].raised
            /\ qs[t].ret = SimilaritySearch(qs[t].store0, qs[t].q, qs[t].k,
                                            qs[t].th).result

\* C19 witness: a query on a fitted index returned a chunk while the other
\* thread was in the middle of its own query on the same index
C19_Witness ==
    \E t, u \in Threads :
        /\ t # u
        /\ qs[t].pc = "done"
        /\ qs[t].store0.fitted
        /\ Len(qs[t].ret) >= 1
        /\ qs[u].store0.fitted
        /\ qs[u].pc \in {"l84", "l87", "l90"}
        /\ qs[u].q # qs[t].q

\* C20: when fit raises during an ingestion (the corpus built from its chunks
\* is one on which fit_transform raises), the ingestion returns False and
\* has written nothing: the index directory, the chunk file, the metadata file
\* and the cloud mirror are as the ingestion found them.
C20_FailedFitWritesNothing ==
    (/\ ing.pc = "returned"
     /\ ing.text_chunks # <<>>
     /\ FitFails(ing.text_chunks)) =>
        /\ ing.result = Some(FALSE)
        /\ disk = ing.disk0
        /\ fs = ing.fs0

\* C20 witness: a second ingestion whose fit raised, over the artifacts and
\* the mirror of a first one that had succeeded
C20_Witness ==
    /\ ing.pc = "returned"
    /\ ing.runs = 2
    /\ ing.text_chunks # <<>>
    /\ FitFails(ing.text_chunks)
    /\ ing.result = Some(FALSE)
    /\ \A a \in DOMAIN disk : disk[a] # None
    /\ fs.chunks # None
    /\ fs.metadata # None
    /\ fs.cloud.metadata # None

\* C25: get_relevant_documents(query) of a retriever returns one record per
\* pair that similarity_search(query, k, score_threshold) returns on the same
\* instance, k and score_threshold being the retriever's search_kwargs (4 and 0.0
\* for a key not given), in the same order, with the pair's text and score; the
\* retriever adds no state: the instance is left as the search leaves it.
C25_RetrieverReshapesSearch ==
    [][last'.op = "retrieve" =>
        \A kw \in {last'.arg.search_kwargs} :
        \A k \in {IF kw.k = None THEN 4 ELSE Val(kw.k)} :
        \A th \in {IF kw.score_threshold = None THEN 0 ELSE Val(kw.score_threshold)} :
        \A r \in {SimilaritySearch(store, last'.arg.query, k, th)} :
            /\ last'.raised = r.raised
            /\ store' = r.store
            /\ Len(last'.result) = Len(r.result)
            /\ \A i \in 1..Len(r.result) :
                /\ last'.result[i].page_content = r.result[i].text
                /\ last'.result[i].metadata.score = r.result[i].score]_vars

\* C25 witness: a retriever with a threshold and no k returned two documents out
\* of a corpus of four, the threshold having removed the others
C25_Witness ==
    /\ last.op = "retrieve"
    /\ ~last.raised
    /\ last.arg.search_kwargs.k = None
    /\ last.arg.search_kwargs.score_threshold # None
    /\ Len(last.result) = 2
    /\ Len(store.texts) = 4

\* C29: no call of the chain raises; the memory always holds an even number of
\* messages, user and assistant in turn, a user message first; a call that
\* succeeded (it returned the answer of the LLM wrapper, which for a failed
\* request is the wrapper's error text) has appended the question and then that
\* answer, and a call that failed (it ended in the handler) has appended
\* nothing.
C29_MemoryAlternates ==
    /\ ~chat.out.raised
    /\ Len(chat.messages) % 2 = 0
    /\ \A i \in 1..Len(chat.messages) :
        chat.messages[i].role = IF i % 2 = 1 THEN "user" ELSE "assistant"
    /\ chat.calls > 0 =>
        IF chat.out.failed
        THEN /\ chat.messages = chat.out.before
             /\ chat.out.answer = ChainErrorText
        ELSE /\ chat.messages =
                    chat.out.before \o
                        <<[role |-> "user", content |-> chat.out.question],
                          [role |-> "assistant", content |-> chat.out.answer]>>
             /\ chat.out.llm_failed <=> chat.out.answer = LLMErrorText

\* a call failed after an earlier one had succeeded
C29_Witness ==
    /\ chat.calls = MaxTurns
    /\ chat.out.failed
    /\ Len(chat.out.before) = 2
    /\ chat.messages = chat.out.before

\* C30: a call of delete_pdf removes nothing but the named file and its metadata
\* file, and the named file only with a complete backup of it written; when
\* the file does not exist or the backup copy fails, nothing is removed and
\* success is false; when success is true, the backup named in the result
\* exists and the file is gone.
C30_DeleteOnlyAfterBackup ==
    [][delete_pdf =>
        LET f == adm'.out.filename
            r == adm'.out.result
        IN  /\ adm'.dir \subseteq adm.dir
            /\ adm.dir \ adm'.dir \subseteq {f, MetadataFile(f)}
            /\ (f \in adm.dir /\ f \notin adm'.dir) =>
                    [path |-> BackupPath(adm'.now, f), complete |-> TRUE]
                        \in adm'.backups
            /\ (f \notin adm.dir \/ r.error = "copy") =>
                    /\ adm'.dir = adm.dir
                    /\ ~r.success
            /\ r.success =>
                    /\ r.backup_created # None
                    /\ [path |-> Val(r.backup_created), complete |-> TRUE]
                            \in adm'.backups
                    /\ Val(r.backup_created).filename = f
                    /\ f \in adm.dir
                    /\ f \notin adm'.dir]_vars

\* a backup copy failed, leaving the file in place, after another deletion had
\* succeeded
C30_Witness ==
    /\ adm.calls = MaxDeletes
    /\ adm.out.op = "delete"
    /\ adm.out.result.error = "copy"
    /\ adm.out.filename \in adm.dir
    /\ \E b \in adm.backups : b.complete /\ b.path.filename # adm.out.filename

\* C21: when the mirror step fails (save_embeddings returns False, wherever
\* its upload stopped), the ingestion still returns True and the local
\* artifacts written before the mirror step are all in place: the four files
\* of the index directory, the chunk file and the metadata file.
C21_MirrorFailureKeepsLocalSave ==
    (ing.pc = "returned" /\ ing.gcs_success = Some(FALSE)) =>
        /\ ing.result = Some(TRUE)
        /\ disk = Artifacts(store)
        /\ fs.chunks = Some(ing.text_chunks)
        /\ fs.metadata = Some(Metadata(ing))

\* C21 witness: a second ingestion returned after its mirror stopped with the
\* index uploaded and the chunks not, over the mirror of a first ingestion
C21_Witness ==
    /\ ing.pc = "returned"
    /\ ing.runs = 2
    /\ ing.gcs_success = Some(FALSE)
    /\ ing.result = Some(TRUE)
    /\ fs.cloud.index = Some(Artifacts(store))
    /\ fs.cloud.chunks # None
    /\ fs.cloud.chunks # Some(ing.text_chunks)
    /\ fs.chunks = Some(ing.text_chunks)

\* C28 (as claimed): building the index does not modify the chunk list, so
\* after a successful ingestion the chunk file, the metadata field num_chunks
\* and the corpus of the index all equal the sequence split_text returned.
C28_ChunkListUnmodified ==
    (ing.pc = "returned" /\ ing.result = Some(TRUE)) =>
        /\ ing.text_chunks = ing.split
        /\ fs.chunks = Some(ing.split)
        /\ Val(fs.metadata).num_chunks = Len(ing.split)
        /\ store.texts = ing.split
        /\ disk.texts = Some(ing.split)

\* C22: load_static_embeddings never raises, whatever artifacts are missing
\* or unreadable locally and in the bucket: it returns (None, None, None), or a
\* triple whose index is the instance load_local returned for an index
\* directory (the local one, or the bucket's) that it could read.
C22_LoadNeverRaises ==
    [][load_static_embeddings =>
        /\ ~ld'.raised
        /\ \/ ld'.result = NoneTriple
           \/ /\ ld'.result.vectorstore # None
              /\ ld'.result.text_chunks # None
              /\ ld'.result.metadata # None
              /\ \E d \in {disk} \cup (IF fs.cloud.index = None THEN {}
                                         ELSE {Val(fs.cloud.index)}) :
                    /\ ~LoadFails(d)
                    /\ ld'.result.vectorstore = Some(LoadLocal(d))]_vars

\* C22 witness: a load with the index directory and the chunk file readable and
\* the metadata file spoiled, which json.load refuses outside the inner handlers
C22_Witness ==
    /\ ld.pc = "returned"
    /\ ~ld.gcs
    /\ ~LoadFails(disk)
    /\ fs.chunks # None
    /\ fs.chunks # Corrupt
    /\ fs.metadata = Corrupt
    /\ ld.result = NoneTriple

\* C27 (as claimed): after an ingestion returned True, the next
\* load_static_embeddings (with the same use of the cloud store) returns the index and the chunk list of that ingestion, whatever
\* the mirror step did and whatever the bucket held before.
C27_LoadReturnsLastIngestion ==
    (/\ ld.pc = "returned"
     /\ ld.gcs = ing.gcs
     /\ ing.pc \in {"idle", "returned"}
     /\ ing.result = Some(TRUE)) =>
        /\ ld.result.vectorstore = Some(store)
        /\ ld.result.text_chunks = Some(ing.text_chunks)

-----------------------------------------------------------------------------
(* Properties of split_text *)

NonWS(s) == SelectSeq(s, LAMBDA c : ~IsSpace(c))

IsPrefix(p, s) == Len(p) <= Len(s) /\ SubSeq(s, 1, Len(p)) = p

TailOf(s, n) == IF Len(s) > n THEN SubSeq(s, Len(s) - n + 1, Len(s)) ELSE s

\* how many leading characters of chunks[j] are injected overlap and separator:
\* those of the untrimmed buffer, less the leading whitespace the trim removed
InjectedIn(j) ==
    LET lead == Len(emits[j].raw) - Len(LStrip(emits[j].raw))
        p == emits[j].inj - lead
    IN  IF p < 0 THEN 0 ELSE IF p > Len(chunks[j]) THEN Len(chunks[j]) ELSE p

\* chunks[j] with the injected overlap prefix removed
Body(j) == SubSeq(chunks[j], InjectedIn(j) + 1, Len(chunks[j]))

RECURSIVE ConcatBodies(_)
ConcatBodies(j) == IF j = 0 THEN <<>> ELSE ConcatBodies(j - 1) \o Body(j)

\* the units read back from the chunks: each body split at the separator, the
\* slices of one force-split unit joined again
RECURSIVE UnitsOfChunks(_)
UnitsOfChunks(j) ==
    IF j = 0 THEN <<>>
    ELSE LET prev == UnitsOfChunks(j - 1) IN
         IF /\ j > 1
            /\ emits[j].kind = "slice"
            /\ emits[j - 1].kind = "slice"
            /\ emits[j - 1].unit = emits[j].unit
         THEN [prev EXCEPT ![Len(prev)] = @ \o Body(j)]
         ELSE prev \o Split(Body(j))

\* C2 (as claimed): every chunk returned by split_text has length <= chunk_size,
\* for every non-empty text, chunk_size > 0 and overlap >= 0.
C2_ChunkWithinSize ==
    \A j \in 1..Len(chunks) : Len(chunks[j]) <= chunk_size

\* C5 (as claimed): with the injected overlap prefix removed from each chunk, the
\* chunks give back the separator-delimited units of the text, in order, none
\* dropped, duplicated or reordered.
C5_UnitsReproduced ==
    (sp_pc = "done" /\ text # <<>>) => UnitsOfChunks(Len(chunks)) = splits

\* C5 (amended): with the injected overlap prefix removed from each chunk, the
\* concatenated chunks hold exactly the non-whitespace characters of the text, in
\* the original order, each once; only whitespace (separators, blank units, the
\* blanks trimmed from a chunk or a slice) is lost.
C5_NonBlankPreserved ==
    sp_pc = "done" => NonWS(ConcatBodies(Len(chunks))) = NonWS(text)

\* C5 witness: a finished call with an overlap-seeded chunk and whitespace lost
C5_Witness ==
    /\ sp_pc = "done"
    /\ Len(chunks) >= 2
    /\ \E j \in 1..Len(chunks) : InjectedIn(j) > 0
    /\ UnitsOfChunks(Len(chunks)) # splits

\* C6 (as claimed): every chunk returned by split_text is non-empty and has no
\* leading or trailing whitespace.
C6_ChunksTrimmedNonEmpty ==
    \A j \in 1..Len(chunks) :
        /\ chunks[j] # <<>>
        /\ ~IsSpace(chunks[j][1])
        /\ ~IsSpace(chunks[j][Len(chunks[j])])

RECURSIVE ConcatChunks(_)
ConcatChunks(j) == IF j = 0 THEN <<>> ELSE ConcatChunks(j - 1) \o chunks[j]

\* the units of the chunks, read back by splitting each chunk at the separator
RECURSIVE UnitsRead(_)
UnitsRead(j) == IF j = 0 THEN <<>> ELSE UnitsRead(j - 1) \o Split(chunks[j])

\* the units that are not blank, each trimmed
NonBlankUnits(us) == StripAll(SelectSeq(us, LAMBDA u : Strip(u) # <<>>))

\* C23 (as claimed): with overlap = 0 every unit of the input occurs in exactly
\* one chunk: the (non-blank, trimmed) units read back from the chunks are the
\* units of the text, each once, in order.
C23_EachUnitInOneChunk ==
    (sp_pc = "done" /\ chunk_overlap = 0 /\ text # <<>>) =>
        NonBlankUnits(UnitsRead(Len(chunks))) = NonBlankUnits(splits)

\* C23 (amended): with overlap = 0 the buffer started after an overflow is
\* exactly the unit that triggered the overflow, with nothing of the closed
\* buffer in it, and the chunks repeat no character: put end to end they hold
\* the non-whitespace characters of the text, each once, in order.  A unit is
\* not always in one chunk: a unit longer than chunk_size met with an empty
\* buffer is spread over several chunks.
C23_NoOverlapNoRepeat ==
    chunk_overlap = 0 =>
        /\ (/\ sp_pc = "loop"
            /\ emits # <<>>
            /\ emits[Len(emits)].kind = "overflow"
            /\ pos = emits[Len(emits)].unit + 1) =>
                /\ current_chunk = splits[pos - 1]
                /\ cur_inj = 0
        /\ sp_pc = "done" => NonWS(ConcatChunks(Len(chunks))) = NonWS(text)

\* C23 witness: a finished call with overlap = 0 in which a buffer was closed on
\* overflow and a long unit was spread over two chunks
C23_Witness ==
    /\ sp_pc = "done"
    /\ chunk_overlap = 0
    /\ \E j \in 1..Len(emits) : emits[j].kind = "overflow"
    /\ \E j \in 1..(Len(emits) - 1) :
        /\ emits[j].kind = "slice"
        /\ emits[j + 1].kind = "slice"
        /\ emits[j].unit = emits[j + 1].unit

\* the i-th run of n characters of u (the last run may be shorter)
SliceAt(u, i, n) ==
    SubSeq(u, (i - 1) * n + 1, IF i * n < Len(u) THEN i * n ELSE Len(u))

\* the consecutive runs of n characters of u, in order
SlicesOf(u, n) == [i \in 1..((Len(u) + n - 1) \div n) |-> SliceAt(u, i, n)]

\* a unit longer than chunk_size is next and the buffer is empty
LongUnitOnEmptyBuffer ==
    /\ sp_pc = "loop"
    /\ pos <= Len(splits)
    /\ current_chunk = <<>>
    /\ Len(splits[pos]) > chunk_size

\* C24 (as claimed): a unit longer than chunk_size met with an empty buffer is
\* emitted as its consecutive slices of exactly chunk_size characters (the last
\* may be shorter), in order, each slice its own chunk, and the buffer is
\* empty afterwards.
C24_LongUnitEmittedAsSlices ==
    [][LongUnitOnEmptyBuffer =>
        /\ chunks' = chunks \o SlicesOf(splits[pos], chunk_size)
        /\ current_chunk' = <<>>]_vars

\* C24 (amended): a unit longer than chunk_size met with an empty buffer is cut
\* into consecutive slices of exactly chunk_size characters (the last may be
\* shorter); each slice is trimmed of leading and trailing whitespace and, if
\* anything is left of it, emitted as its own chunk, in order, with no overlap;
\* the buffer is empty afterwards.  A chunk made from a slice may therefore be
\* shorter than chunk_size, and a slice of whitespace gives no chunk.
C24_LongUnitEmittedAsTrimmedSlices ==
    [][LongUnitOnEmptyBuffer =>
        /\ chunks' = chunks \o NonBlankUnits(SlicesOf(splits[pos], chunk_size))
        /\ current_chunk' = <<>>]_vars

\* C24 witness: a long unit was cut with an empty buffer, one of its slices was
\* trimmed and another one, of whitespace, gave no chunk
C24_Witness ==
    /\ sp_pc = "loop"
    /\ pos > 1
    /\ current_chunk = <<>>
    /\ Len(splits[pos - 1]) > chunk_size
    /\ chunks # <<>>
    /\ emits[Len(emits)].kind = "slice"
    /\ emits[Len(emits)].unit = pos - 1
    /\ chunks[Len(chunks)] # emits[Len(emits)].raw
    /\ Len(chunks) < Len(SlicesOf(splits[pos - 1], chunk_size))

\* C26: split_text terminates for every text, chunk_size > 0 and overlap >= 0
\* (overlap >= chunk_size included): the call reaches its return, no step of
\* it being undefined; for the empty text it returns the empty sequence.
C26_SplitTerminates ==
    /\ <>(sp_pc = "done")
    /\ []((sp_pc = "done" /\ text = <<>>) => chunks = <<>>)

\* C26 witness: a call with overlap >= chunk_size returned, after a buffer was
\* closed on overflow and a long unit was cut
C26_Witness ==
    /\ sp_pc = "done"
    /\ chunk_overlap >= chunk_size
    /\ \E j \in 1..Len(emits) : emits[j].kind = "overflow"
    /\ \E j \in 1..Len(emits) : emits[j].kind = "slice"

====
